---- MODULE Spec2Model ----
(***************************************************************************)
(* Model of path_router (src/src/lib.rs): a trie of routes keyed by        *)
(* slash-delimited paths, with capture segments (":name").                 *)
(*                                                                         *)
(* A string is a sequence of one-character strings, so "/:a/b" is          *)
(* <<"/", ":", "a", "/", "b">> and the empty string "" is <<>>.            *)
(* Option<X> is a sequence of length at most one: None is <<>> and         *)
(* Some(x) is <<x>>.                                                       *)
(* A Tree is a record [label, value, branches], as the struct of the       *)
(* source; branches is the Vec of the children, in storage order.          *)
(***************************************************************************)
EXTENDS Integers, Sequences, FiniteSets, TLC

VARIABLES tree,    \* the routing tree (the root Tree)
          added,   \* the add calls that returned, in call order: [key, v]
          call,    \* the last call: [op, key, ok]; ok = FALSE: it panicked
          found,   \* what the last call of find returned (an Option)
          log      \* the calls and returns of find_ during the last find

vars == <<tree, added, call, found, log>>

----------------------------------------------------------------------------
(* Bounds *)

MaxSegs == 2        \* segments of a pattern or of a path
MaxTotalSegs == 3   \* segments of all the patterns added, taken together
MaxKeyLen == 3      \* characters of a raw key (SpecRaw)
MaxRawAdds == 1     \* add calls that return (SpecRaw)

----------------------------------------------------------------------------
(* Strings *)

None == <<>>
Some(x) == <<x>>

Min(a, b) == IF a < b THEN a ELSE b

RECURSIVE split(_, _, _)
\* str::split('/'): the pieces between the separators, empty ones included
split(key, piece, pieces) ==
  IF key = <<>> THEN Append(pieces, piece)
  ELSE IF Head(key) = "/" THEN split(Tail(key), <<>>, Append(pieces, piece))
  ELSE split(Tail(key), Append(piece, Head(key)), pieces)

is_empty(s) == s = <<>>

not_empty(s) == ~is_empty(s)

\* key.split('/') without the filter
segmentsUnfiltered(key) == split(key, <<>>, <<>>)

\* key.split('/').filter(|s| !s.is_empty())
segments_of(key) == SelectSeq(split(key, <<>>, <<>>), not_empty)

starts_with_colon(segment) == segment # <<>> /\ Head(segment) = ":"

\* &segment[1..] without the slice
captureNameWhole(segment) == segment

\* &segment[1..]
capture_name(segment) == Tail(segment)

----------------------------------------------------------------------------
(* The tree *)

Branch(l) == [label |-> l, value |-> None, branches |-> <<>>]

new == Branch(<<>>)

RECURSIVE find_first(_, _, _)
\* Iterator::find over the branches: the index of the first branch whose
\* label is l, 0 when there is none
find_first(branches, l, i) ==
  IF i > Len(branches) THEN 0
  ELSE IF branches[i].label = l THEN i
  ELSE find_first(branches, l, i + 1)

\* a lookup that never finds the branch
existingNever(branches, segment) == 0

\* self.branches.iter_mut().find(|t| t.label == segment)
existing_branch(branches, segment) == find_first(branches, segment, 1)

\* a lookup that never finds the wildcard branch
existingWildcardNever(branches) == 0

\* self.branches.iter_mut().find(|t| t.label.is_empty())
existing_wildcard(branches) == find_first(branches, <<>>, 1)

\* the None arm of add_ without the duplicate check
setValueOverwrite(self, value, capture_labels) ==
  [ok |-> TRUE,
   t |-> [self EXCEPT !.value = Some([v |-> value, labels |-> capture_labels])]]

\* the None arm of add_ with the check after the assignment
setValueThenPanic(self, value, capture_labels) ==
  [ok |-> self.value = None,
   t |-> [self EXCEPT !.value = Some([v |-> value, labels |-> capture_labels])]]

\* the None arm of add_: panic on a duplicate route, else set the value
set_value(self, value, capture_labels) ==
  IF self.value # None
  THEN [ok |-> FALSE, t |-> self]
  ELSE [ok |-> TRUE,
        t |-> [self EXCEPT !.value = Some([v |-> value, labels |-> capture_labels])]]

\* a push at the front of the Vec
pushFront(branches, branch) == <<branch>> \o branches

\* an assignment of the new branch in place of the Vec
pushReplace(branches, branch) == <<branch>>

\* self.branches.push(branch)
push(branches, branch) == Append(branches, branch)

\* existing_branch.add_(...); return: the branch is changed in place, and a
\* panic inside it unwinds through this call
descend(self, i, r) == [ok |-> r.ok, t |-> [self EXCEPT !.branches[i] = r.t]]

\* branch.add_(...); self.branches.push(branch): a panic inside add_ unwinds
\* before the push
attach(self, r) ==
  IF r.ok THEN [ok |-> TRUE, t |-> [self EXCEPT !.branches = push(@, r.t)]]
  ELSE [ok |-> FALSE, t |-> self]

RECURSIVE add_(_, _, _, _)
add_(self, segments, value, capture_labels) ==
  IF segments = <<>> THEN set_value(self, value, capture_labels)
  ELSE
    LET segment == Head(segments)
        rest == Tail(segments)
        i == existing_branch(self.branches, segment)
    IN IF i # 0
       THEN descend(self, i, add_(self.branches[i], rest, value, capture_labels))
       ELSE IF starts_with_colon(segment)
       THEN LET labels == Append(capture_labels, capture_name(segment))
                j == existing_wildcard(self.branches)
            IN IF j # 0
               THEN descend(self, j, add_(self.branches[j], rest, value, labels))
               ELSE attach(self, add_(Branch(<<>>), rest, value, labels))
       ELSE attach(self, add_(Branch(segment), rest, value, capture_labels))

\* Tree::add: [ok, t], ok = FALSE when the call panics
add(self, key, value) == add_(self, segments_of(key), value, <<>>)

----------------------------------------------------------------------------
(* find *)

\* one call of find_ on the node at index path node, or its return
\* segments is the slice the call was given
CallEv(node, captured, segments) ==
  [ev |-> "call", node |-> node, entry |-> captured, exit |-> captured,
   some |-> FALSE, segments |-> segments]

RetEv(node, entry, captured, result, segments) ==
  [ev |-> "ret", node |-> node, entry |-> entry, exit |-> captured,
   some |-> result # None, segments |-> segments]

\* a split that drops the segment after the first one too
remainingSkipsTwo(segments) ==
  IF Len(segments) > 1 THEN Tail(Tail(segments)) ELSE Tail(segments)

\* segments.split_first(): the slice after the first segment
remaining_of(segments) == Tail(segments)

\* the wildcard arm without the pop
backtrackNoPop(captured, result) == captured

\* if result.is_none() { captured.pop(); }
backtrack(captured, result) ==
  IF result = None THEN SubSeq(captured, 1, Len(captured) - 1) ELSE captured

\* a comparison that takes every branch for a literal match
labelMatchesAny(label, segment) == TRUE

\* t.label == segment
label_matches(label, segment) == label = segment

RECURSIVE find_(_, _, _, _, _), filter_map_next(_, _, _, _, _, _, _)

\* Tree::find_ on self, the node at index path node; captured is the
\* &mut Vec<String>, threaded through the calls: [result, captured, log]
find_(self, segments, captured, node, lg) ==
  LET entered == Append(lg, CallEv(node, captured, segments))
      r == IF segments = <<>>
           THEN [result |-> self.value, captured |-> captured, log |-> entered]
           ELSE filter_map_next(self, 1, Head(segments), remaining_of(segments),
                                captured, node, entered)
  IN [result |-> r.result, captured |-> r.captured,
      log |-> Append(r.log,
                     RetEv(node, captured, r.captured, r.result, segments))]

RECURSIVE filterMapGreedy(_, _, _, _, _, _, _)
\* a descent without backtracking: the first candidate branch decides
filterMapGreedy(self, i, segment, remaining, captured, node, lg) ==
  IF i > Len(self.branches)
  THEN [result |-> None, captured |-> captured, log |-> lg]
  ELSE
    LET t == self.branches[i] IN
    IF label_matches(t.label, segment)
    THEN find_(t, remaining, captured, Append(node, i), lg)
    ELSE IF t.label = <<>>
    THEN LET r == find_(t, remaining, Append(captured, segment),
                        Append(node, i), lg)
         IN [result |-> r.result, captured |-> backtrack(r.captured, r.result),
             log |-> r.log]
    ELSE filterMapGreedy(self, i + 1, segment, remaining, captured, node, lg)

\* self.branches.iter().filter_map(closure).next(), from branch i on: the
\* closure runs on one branch after the other until it returns Some
filter_map_next(self, i, segment, remaining, captured, node, lg) ==
  IF i > Len(self.branches)
  THEN [result |-> None, captured |-> captured, log |-> lg]
  ELSE
    LET t == self.branches[i] IN
    IF label_matches(t.label, segment)
    THEN LET r == find_(t, remaining, captured, Append(node, i), lg)
         IN IF r.result # None THEN r
            ELSE filter_map_next(self, i + 1, segment, remaining,
                                 r.captured, node, r.log)
    ELSE IF t.label = <<>>
    THEN LET r == find_(t, remaining, Append(captured, segment),
                        Append(node, i), lg)
             c == backtrack(r.captured, r.result)
         IN IF r.result # None
            THEN [result |-> r.result, captured |-> c, log |-> r.log]
            ELSE filter_map_next(self, i + 1, segment, remaining,
                                 c, node, r.log)
    ELSE filter_map_next(self, i + 1, segment, remaining, captured, node, lg)

\* a zip that pairs the names with the values in reverse
zipReversed(labels, captured) ==
  [i \in 1..Min(Len(labels), Len(captured)) |->
     <<labels[i], captured[Len(captured) + 1 - i]>>]

\* labels.iter().cloned().zip(captured).collect(): as long as the shorter
zip(labels, captured) ==
  [i \in 1..Min(Len(labels), Len(captured)) |-> <<labels[i], captured[i]>>]

\* Tree::find: [result, captured, log]; result is the Option returned
find(self, key) ==
  LET r == find_(self, segments_of(key), <<>>, <<>>, <<>>)
  IN [result |-> IF r.result = None THEN None
                 ELSE Some([v |-> r.result[1].v,
                            captures |-> zip(r.result[1].labels, r.captured)]),
      terminal |-> r.result,
      captured |-> r.captured,
      log |-> r.log]

----------------------------------------------------------------------------
(* Inputs *)

SeqsUpTo(S, n) == UNION {[1..k -> S] : k \in 0..n}

\* the segments of the patterns: a literal and two captures
Literals == {<<"a">>}

Captures == {<<":", "a">>, <<":", "b">>}

\* the segments of the paths: the literal of the patterns and another one
PathSegs == {<<"a">>, <<"b">>}

RECURSIVE Join(_)
\* the key "/s1/s2/..." of a list of segments ("/" of the empty list)
Join(segs) ==
  IF segs = <<>> THEN <<"/">>
  ELSE IF Len(segs) = 1 THEN <<"/">> \o segs[1]
  ELSE <<"/">> \o Head(segs) \o Join(Tail(segs))

PatternKeys == {Join(sl) : sl \in SeqsUpTo(Literals \cup Captures, MaxSegs)}

PathKeys == {Join(sl) : sl \in SeqsUpTo(PathSegs, MaxSegs)}

Alphabet == {"/", "a"}

RECURSIVE TotalSegs(_)
\* the segments of the patterns of a list of add calls, taken together
TotalSegs(calls) ==
  IF calls = <<>> THEN 0
  ELSE Len(segments_of(Head(calls).key)) + TotalSegs(Tail(calls))

RawKeys == SeqsUpTo(Alphabet, MaxKeyLen)

----------------------------------------------------------------------------
(* The calls *)

Init ==
  /\ tree = new
  /\ added = <<>>
  /\ call = [op |-> "new", key |-> <<>>, ok |-> TRUE]
  /\ found = None
  /\ log = <<>>

\* routes.add(key, value); the values are 1, 2, ... in call order, so that a
\* value names the call that stored it. A call that panics leaves the tree as
\* the unwinding leaves it.
Add(key) ==
  LET r == add(tree, key, Len(added) + 1) IN
  /\ tree' = r.t
  /\ added' = IF r.ok THEN Append(added, [key |-> key, v |-> Len(added) + 1])
              ELSE added
  /\ call' = [op |-> "add", key |-> key, ok |-> r.ok]
  /\ found' = None
  /\ log' = <<>>

\* routes.find(key)
Find(key) ==
  LET r == find(tree, key) IN
  /\ found' = r.result
  /\ log' = r.log
  /\ call' = [op |-> "find", key |-> key, ok |-> TRUE]
  /\ UNCHANGED <<tree, added>>

AddPattern ==
  \E key \in PatternKeys :
    /\ TotalSegs(added) + Len(segments_of(key)) <= MaxTotalSegs
    /\ Add(key)

FindPath == \E key \in PathKeys : Find(key)

Next == AddPattern \/ FindPath

Spec == Init /\ [][Next]_vars

AddRaw == \E key \in RawKeys : Len(added) < MaxRawAdds /\ Add(key)

FindRaw == \E key \in RawKeys : Find(key)

NextRaw == AddRaw \/ FindRaw

SpecRaw == Init /\ [][NextRaw]_vars

----------------------------------------------------------------------------
(* What the claims speak of *)

\* the index paths of the nodes of t: <<>> is t, <<i>> \o q is in branch i
RECURSIVE NodePaths(_)
NodePaths(t) ==
  {<<>>} \cup UNION {{<<i>> \o q : q \in NodePaths(t.branches[i])} :
                     i \in 1..Len(t.branches)}

RECURSIVE NodeAt(_, _)
NodeAt(t, q) == IF q = <<>> THEN t ELSE NodeAt(t.branches[Head(q)], Tail(q))

Prefix(q, d) == SubSeq(q, 1, d)

IsWildcard(t) == t.label = <<>>

\* the segments a key of PatternKeys or PathKeys was joined from
SegLists == SeqsUpTo(Literals \cup Captures \cup PathSegs, MaxSegs)

SegsTable ==
  [key \in PatternKeys \cup PathKeys |-> CHOOSE sl \in SegLists : Join(sl) = key]

Segs(key) == SegsTable[key]

IsCapture(seg) == seg \in Captures

\* a pattern matches a path structurally
Matches(pat, path) ==
  /\ Len(pat) = Len(path)
  /\ \A i \in 1..Len(pat) : IsCapture(pat[i]) \/ pat[i] = path[i]

RECURSIVE ExpectedCaptures(_, _)
\* (name, value) of the capture segments of pat on path, left to right
ExpectedCaptures(pat, path) ==
  IF pat = <<>> \/ path = <<>> THEN <<>>
  ELSE (IF IsCapture(Head(pat)) THEN <<(<<Tail(Head(pat)), Head(path)>>)>>
        ELSE <<>>) \o ExpectedCaptures(Tail(pat), Tail(path))

RECURSIVE CaptureNames(_)
CaptureNames(pat) ==
  IF pat = <<>> THEN <<>>
  ELSE (IF IsCapture(Head(pat)) THEN <<Tail(Head(pat))>> ELSE <<>>)
       \o CaptureNames(Tail(pat))

\* the number of wildcard nodes from the root down to the node at q
Wildcards(t, q) ==
  Cardinality({d \in 1..Len(q) : IsWildcard(NodeAt(t, Prefix(q, d)))})

RECURSIVE WildcardSegs(_, _, _)
\* the segments of path at the depths where the way to q is a wildcard node
WildcardSegs(t, q, path) ==
  IF q = <<>> THEN <<>>
  ELSE LET child == t.branches[Head(q)]
       IN (IF IsWildcard(child) THEN <<Head(path)>> ELSE <<>>)
          \o WildcardSegs(child, Tail(q), Tail(path))

Calls == {i \in 1..Len(log) : log[i].ev = "call"}

Rets == {i \in 1..Len(log) : log[i].ev = "ret"}

Matched == call.op = "find" /\ found # None

\* the first return of find_ with Some: the node whose terminal is returned
FirstSome == CHOOSE i \in Rets : log[i].some /\ \A j \in Rets : log[j].some => i <= j

TerminalNode == log[FirstSome].node

----------------------------------------------------------------------------
(* C1 *)

\* the literal branches of the parent of the node at q whose label is the
\* segment the node at q is tried for
LiteralSiblings(q) ==
  LET up == Prefix(q, Len(q) - 1)
      seg == Segs(call.key)[Len(q)]
  IN {Append(up, k) : k \in {k \in 1..Len(NodeAt(tree, up).branches) :
                              NodeAt(tree, up).branches[k].label = seg}}

\* C1 (as claimed): during a find, a wildcard child is entered only after the
\* literal sibling whose label equals the segment has been entered, and a
\* match never goes through a wildcard node whose literal sibling leads to a
\* terminal for the rest of the path.
C1_LiteralBeforeWildcard ==
  call.op = "find" =>
    /\ \A i \in Calls :
         (log[i].node # <<>> /\ IsWildcard(NodeAt(tree, log[i].node))) =>
           \A sib \in LiteralSiblings(log[i].node) :
             \E j \in Calls : j < i /\ log[j].node = sib
    /\ found # None =>
         \A d \in 1..Len(TerminalNode) :
           IsWildcard(NodeAt(tree, Prefix(TerminalNode, d))) =>
             \A sib \in LiteralSiblings(Prefix(TerminalNode, d)) :
               find_(NodeAt(tree, sib),
                     SubSeq(Segs(call.key), d + 1, Len(Segs(call.key))),
                     <<>>, sib, <<>>).result = None

----------------------------------------------------------------------------
(* C2 *)

RECURSIVE EndNode(_, _)
\* the node a pattern ends at: Some(index path), or None when the trie has
\* no such node; a capture segment leads to the wildcard branch and a
\* literal segment to the branch of that label
EndNode(t, pat) ==
  IF pat = <<>> THEN Some(<<>>)
  ELSE LET l == IF IsCapture(Head(pat)) THEN <<>> ELSE Head(pat)
           ks == {k \in 1..Len(t.branches) : t.branches[k].label = l}
       IN IF ks = {} THEN None
          ELSE LET k == CHOOSE k \in ks : TRUE
                   below == EndNode(t.branches[k], Tail(pat))
               IN IF below = None THEN None ELSE Some(<<k>> \o below[1])

HoldsTerminal(t, pat) ==
  EndNode(t, pat) # None /\ NodeAt(t, EndNode(t, pat)[1]).value # None

TerminalsKept ==
  \A q \in NodePaths(tree) :
    NodeAt(tree, q).value # None =>
      q \in NodePaths(tree') /\ NodeAt(tree', q).value = NodeAt(tree, q).value

DuplicateStep ==
  /\ tree' # tree => TerminalsKept
  /\ (call'.op = "add" /\ HoldsTerminal(tree, Segs(call'.key))) =>
       (~call'.ok /\ added' = added)

\* C2: an add of a pattern that ends at a node holding a terminal panics and
\* stores nothing, and no step changes or removes a terminal once it is set.
C2_DuplicateRejected == [][DuplicateStep]_vars

\* an add has panicked on a pattern whose parameter name differs from the
\* one of the route already stored at its node
C2_Witness ==
  /\ call.op = "add" /\ ~call.ok
  /\ HoldsTerminal(tree, Segs(call.key))
  /\ \A i \in 1..Len(added) : added[i].key # call.key

----------------------------------------------------------------------------
(* C3 *)

Registered == {Segs(added[i].key) : i \in 1..Len(added)}

\* C3: find returns a match exactly when a registered pattern matches the
\* path structurally.
C3_MatchExists ==
  call.op = "find" =>
    (found # None <=> \E pat \in Registered : Matches(pat, Segs(call.key)))

\* a find matched through a wildcard branch after the literal sibling, tried
\* before it for the same segment, had returned None
C3_Witness ==
  /\ Matched
  /\ \E i, j \in Rets :
       /\ i < j
       /\ ~log[i].some /\ log[j].some
       /\ Len(log[i].node) > 0 /\ Len(log[i].node) = Len(log[j].node)
       /\ Prefix(log[i].node, Len(log[i].node) - 1)
            = Prefix(log[j].node, Len(log[j].node) - 1)
       /\ ~IsWildcard(NodeAt(tree, log[i].node))
       /\ IsWildcard(NodeAt(tree, log[j].node))

----------------------------------------------------------------------------
(* C4 *)

\* C4: a match is the terminal of a registered pattern that matches the path,
\* its captures are the pattern's capture names paired with the path's
\* segments at the same positions, in order, and the zip drops nothing.
C4_CaptureBinding ==
  Matched =>
    LET pat == Segs(added[found[1].v].key)
        path == Segs(call.key)
        t == NodeAt(tree, TerminalNode).value[1]
    IN /\ found[1].v \in 1..Len(added)
       /\ Matches(pat, path)
       /\ found[1].captures = ExpectedCaptures(pat, path)
       /\ Len(found[1].captures) = Len(CaptureNames(pat))
       /\ Len(t.labels) = Len(log[Len(log)].exit)
       /\ Len(found[1].captures) = Len(t.labels)

\* a match with two captures of different names and different values
C4_Witness ==
  /\ Matched
  /\ Len(found[1].captures) = 2
  /\ found[1].captures[1][1] # found[1].captures[2][1]
  /\ found[1].captures[1][2] # found[1].captures[2][2]

----------------------------------------------------------------------------
(* C5 *)

InsertAt(key, i, c) == SubSeq(key, 1, i - 1) \o <<c>> \o SubSeq(key, i, Len(key))

\* key with one more '/' in front, at the end, or next to a '/'
Variants(key) ==
  {InsertAt(key, i, "/") :
     i \in {i \in 1..(Len(key) + 1) :
              \/ i = 1
              \/ i = Len(key) + 1
              \/ key[i] = "/"
              \/ key[i - 1] = "/"}}

OnlySlashes(key) == \A i \in 1..Len(key) : key[i] = "/"

SlashStep ==
  /\ call'.op = "find" =>
       /\ \A kv \in Variants(call'.key) : find(tree', kv).result = found'
       /\ OnlySlashes(call'.key) =>
            found' = IF tree'.value = None THEN None
                     ELSE Some([v |-> tree'.value[1].v, captures |-> <<>>])
  /\ call'.op = "add" =>
       /\ \A kv \in Variants(call'.key) :
            /\ add(tree, kv, Len(added) + 1) = [ok |-> call'.ok, t |-> tree']
            /\ call'.ok => ~add(tree', kv, Len(added') + 1).ok
       /\ (OnlySlashes(call'.key) /\ call'.ok) =>
            tree'.value = Some([v |-> Len(added'), labels |-> <<>>])

\* C5: a key and the same key with one more leading, trailing or repeated
\* '/' give the same find result in every trie and the same trie when added,
\* the one is a duplicate of the other, and a key of slashes only is the root.
C5_SlashNormalization == [][SlashStep]_vars

\* a find matched a route under a key spelt with a doubled slash, which is
\* not the spelling the route was added under
C5_Witness ==
  /\ Matched
  /\ \E i \in 1..(Len(call.key) - 1) : call.key[i] = "/" /\ call.key[i + 1] = "/"
  /\ ~OnlySlashes(call.key)
  /\ \A i \in 1..Len(added) : added[i].key # call.key

----------------------------------------------------------------------------
(* C6 *)

\* C6 (as claimed): a find on the path of an added pattern of literal
\* segments only returns that pattern's value and no captures.
C6_ExactLiteral ==
  call.op = "find" =>
    \A i \in 1..Len(added) :
      (Segs(added[i].key) = Segs(call.key)
         /\ \A k \in 1..Len(Segs(call.key)) : ~IsCapture(Segs(call.key)[k])) =>
        found = Some([v |-> added[i].v, captures |-> <<>>])

----------------------------------------------------------------------------
(* C7 *)

Terminals == {q \in NodePaths(tree) : NodeAt(tree, q).value # None}

\* C7: the names stored in a terminal are the parameter names of the pattern
\* of the add call that set it, in order, one for each wildcard node on the
\* way from the root.
C7_TerminalNames ==
  \A q \in Terminals :
    LET t == NodeAt(tree, q).value[1] IN
    /\ t.v \in 1..Len(added)
    /\ t.labels = CaptureNames(Segs(added[t.v].key))
    /\ Len(t.labels) = Wildcards(tree, q)

\* two terminals below one wildcard branch of the root, stored under
\* different names for it
C7_Witness ==
  \E q1, q2 \in Terminals :
    /\ Len(q1) > 0 /\ Len(q2) > 0 /\ q1[1] = q2[1]
    /\ IsWildcard(NodeAt(tree, <<q1[1]>>))
    /\ NodeAt(tree, q1).value[1].labels[1] # NodeAt(tree, q2).value[1].labels[1]

----------------------------------------------------------------------------
(* C8 *)

\* C8: the branches of a node have pairwise different labels (so at most one
\* is a wildcard) and no label begins with ':'.
C8_SiblingsUnique ==
  \A q \in NodePaths(tree) :
    LET bs == NodeAt(tree, q).branches IN
    /\ \A i, j \in 1..Len(bs) : bs[i].label = bs[j].label => i = j
    /\ \A i \in 1..Len(bs) : ~starts_with_colon(bs[i].label)

\* two patterns that begin with captures of different names share the one
\* wildcard branch of the root
C8_Witness ==
  /\ Len(added) = 2
  /\ Len(Segs(added[1].key)) > 0 /\ Len(Segs(added[2].key)) > 0
  /\ IsCapture(Segs(added[1].key)[1]) /\ IsCapture(Segs(added[2].key)[1])
  /\ Segs(added[1].key)[1] # Segs(added[2].key)[1]
  /\ Len(tree.branches) = 1 /\ IsWildcard(tree.branches[1])

----------------------------------------------------------------------------
(* C9 *)

\* the call event of the return event at i
CallOf(i) == CHOOSE j \in Calls : log[j].node = log[i].node

\* C9: a call of find_ that returns None leaves the captured stack as it was
\* at its entry, the stack at an entry holds the segments of the wildcard
\* nodes on the way to that node and nothing else, and a call that returns
\* Some leaves the segments of the wildcard nodes on the way to the terminal.
C9_StackDiscipline ==
  call.op = "find" =>
    /\ \A i \in Rets : ~log[i].some => log[i].exit = log[i].entry
    /\ \A i \in Calls :
         log[i].entry = WildcardSegs(tree, log[i].node, Segs(call.key))
    /\ \A i \in Rets :
         log[i].some =>
           log[i].exit = WildcardSegs(tree, TerminalNode, Segs(call.key))

\* a find matched after it had given up a wildcard branch it had pushed a
\* value for
C9_Witness ==
  /\ Matched
  /\ \E i \in Rets :
       /\ ~log[i].some
       /\ log[i].node # <<>>
       /\ IsWildcard(NodeAt(tree, log[i].node))
       /\ i < FirstSome

----------------------------------------------------------------------------
(* C10 *)

\* q comes before r in depth-first order
Before(q, r) ==
  \/ Len(q) < Len(r) /\ Prefix(r, Len(q)) = q
  \/ \E k \in 1..Min(Len(q), Len(r)) :
       Prefix(q, k - 1) = Prefix(r, k - 1) /\ q[k] < r[k]

AppendOnly ==
  \A q \in NodePaths(tree) :
    /\ q \in NodePaths(tree')
    /\ NodeAt(tree', q).label = NodeAt(tree, q).label
    /\ NodeAt(tree, q).value # None =>
         NodeAt(tree', q).value = NodeAt(tree, q).value

\* the branches of the node at q that find_ has to try for the path
Candidates(q) ==
  LET bs == NodeAt(tree, q).branches
      path == Segs(call.key)
  IN IF Len(q) >= Len(path) THEN {}
     ELSE {k \in 1..Len(bs) :
             bs[k].label = path[Len(q) + 1] \/ bs[k].label = <<>>}

Called(q) == \E i \in Calls : log[i].node = q

Returned(q, some) == \E i \in Rets : log[i].node = q /\ log[i].some = some

StorageOrder ==
  call.op = "find" =>
    /\ \A i, j \in Calls : i < j => Before(log[i].node, log[j].node)
    /\ \A i \in Calls :
         LET q == log[i].node IN
         /\ \A k \in 1..Len(NodeAt(tree, q).branches) :
              Called(Append(q, k)) <=>
                /\ k \in Candidates(q)
                /\ \A m \in Candidates(q) : m < k => Returned(Append(q, m), FALSE)
    /\ found # None =>
         /\ \A i \in Calls : i < FirstSome
         /\ log[FirstSome - 1].ev = "call"
         /\ log[FirstSome - 1].node = TerminalNode
         /\ found[1].v = NodeAt(tree, TerminalNode).value[1].v

\* C10: a step keeps every node at its place with its label and its terminal
\* (new branches come after the existing ones), and find_ enters the
\* candidate branches in storage order, depth first, up to the first
\* terminal, which it returns.
C10_AppendOnly == []StorageOrder /\ [][tree' # tree => AppendOnly]_vars

\* a find that matched in the second branch of the root after the first one,
\* older, had failed
C10_Witness ==
  /\ Matched
  /\ Len(tree.branches) = 2
  /\ Returned(<<1>>, FALSE)
  /\ TerminalNode[1] = 2

----------------------------------------------------------------------------
(* C11 *)

\* C11: every call of find_ in the trace has returned, the call on a node at
\* depth d was given the path without its first d segments (one segment is
\* consumed per level, so the depth never exceeds the number of segments),
\* no node is entered twice, and add_ has set every terminal at the depth
\* that is the number of segments of its pattern.
C11_BoundedDescent ==
  /\ call.op = "find" =>
       LET path == Segs(call.key) IN
       /\ \A i \in Calls :
            /\ Len(log[i].node) <= Len(path)
            /\ log[i].segments
                 = SubSeq(path, Len(log[i].node) + 1, Len(path))
            /\ \E j \in Rets : j > i /\ log[j].node = log[i].node
       /\ \A i, j \in Calls : log[i].node = log[j].node => i = j
       /\ Cardinality(Calls) = Cardinality(Rets)
       /\ Cardinality(Calls) <= Cardinality(NodePaths(tree))
       /\ log[1].node = <<>> /\ log[Len(log)].ev = "ret"
       /\ log[Len(log)].node = <<>>
  /\ \A q \in Terminals :
       Len(q) = Len(Segs(added[NodeAt(tree, q).value[1].v].key))
  /\ \A q \in NodePaths(tree) :
       q = <<>> \/ \E i \in 1..Len(added) : Len(q) <= Len(Segs(added[i].key))

\* a find went two levels down and entered four nodes or more
C11_Witness ==
  /\ call.op = "find"
  /\ Cardinality(Calls) >= 4
  /\ \E i \in Calls : Len(log[i].node) = 2 /\ log[i].segments = <<>>

----------------------------------------------------------------------------
(* C12 *)

\* a pattern without its parameter names: <<>> stands for a capture segment
Shape(pat) == [i \in 1..Len(pat) |-> IF IsCapture(pat[i]) THEN <<>> ELSE pat[i]]

SameRoute(key) ==
  {i \in 1..Len(added) : Shape(Segs(added[i].key)) = Shape(Segs(key))}

RenamedStep ==
  call'.op = "add" =>
    /\ call'.ok <=> SameRoute(call'.key) = {}
    /\ ~call'.ok =>
         /\ added' = added
         /\ \A i \in SameRoute(call'.key) :
              /\ HoldsTerminal(tree', Segs(added[i].key))
              /\ NodeAt(tree', EndNode(tree', Segs(added[i].key))[1]).value
                   = Some([v |-> added[i].v,
                           labels |-> CaptureNames(Segs(added[i].key))])

\* C12: an add panics exactly when a pattern of the same segments up to the
\* parameter names has been added before, and then the value and the names
\* of the first pattern stay in its terminal.
C12_NamesDoNotDistinguish == [][RenamedStep]_vars

\* an add has panicked on a pattern that differs from the one added before
\* in a parameter name only
C12_Witness ==
  /\ call.op = "add" /\ ~call.ok
  /\ \E i \in SameRoute(call.key) :
       /\ Segs(added[i].key) # Segs(call.key)
       /\ CaptureNames(Segs(added[i].key)) # CaptureNames(Segs(call.key))

----------------------------------------------------------------------------
(* C13 *)

RejectedStep ==
  (call'.op = "add" /\ ~call'.ok) =>
    /\ tree' = tree
    /\ added' = added
    /\ \A path \in PathKeys : find(tree', path).result = find(tree, path).result

\* C13: an add that panics leaves the trie as it was, so every find returns
\* what it returned before.
C13_RejectedAddChangesNothing == [][RejectedStep]_vars

\* an add has panicked on a trie of two routes in two branches of the root
C13_Witness ==
  /\ call.op = "add" /\ ~call.ok
  /\ Len(added) = 2
  /\ Len(tree.branches) = 2
  /\ Len(Segs(call.key)) = 1

----------------------------------------------------------------------------
(* C14 *)

MatchedPaths(t) == {path \in PathKeys : find(t, path).result # None}

MatchesKeptStep == tree' # tree => MatchedPaths(tree) \subseteq MatchedPaths(tree')

C14_PayloadChanged ==
  /\ Matched
  /\ Len(added) = 3
  /\ found[1].v = 3
  /\ \E i \in 1..2 : Segs(added[i].key) = Segs(call.key)

----------------------------------------------------------------------------
(* C15 *)

Perms(n) == {p \in [1..n -> 1..n] : \A i, j \in 1..n : p[i] = p[j] => i = j}

RECURSIVE Build(_, _)
\* the outcome of the add calls of a list on t, each with its own value:
\* [ok, t], ok = FALSE when one of them panics
Build(t, calls) ==
  IF calls = <<>> THEN [ok |-> TRUE, t |-> t]
  ELSE LET r == add(t, Head(calls).key, Head(calls).v)
       IN IF r.ok THEN Build(r.t, Tail(calls)) ELSE [ok |-> FALSE, t |-> r.t]

Reordered(p) == Build(new, [i \in 1..Len(added) |-> added[p[i]]])

MatchingRoutes(path) ==
  {i \in 1..Len(added) : Matches(Segs(added[i].key), Segs(path))}

\* C15: the routes added so far, added in any other order, give a trie in
\* which find matches the same paths, and returns the same value and the
\* same captures for every path that exactly one route matches.
C15_OrderIndependence ==
  call.op # "find" =>
    \A p \in Perms(Len(added)) :
      /\ Reordered(p).ok
      /\ \A path \in PathKeys :
           LET r1 == find(tree, path).result
               r2 == find(Reordered(p).t, path).result
           IN /\ r1 = None <=> r2 = None
              /\ Cardinality(MatchingRoutes(path)) = 1 => r1 = r2

\* two routes whose other order gives another trie, and a path that only
\* the one with a capture matches
C15_Witness ==
  /\ call.op = "add" /\ call.ok
  /\ Len(added) = 2
  /\ \E p \in Perms(2) : Reordered(p).t # tree
  /\ \E path \in PathKeys :
       /\ Cardinality(MatchingRoutes(path)) = 1
       /\ find(tree, path).result # None
       /\ find(tree, path).result[1].captures # <<>>

====
